---- MODULE Spec2Model ----
(***************************************************************************)
(* Model of the anagram-phrases library: the prime-number encoder          *)
(* (primes.rs), the lexicon builder (words.rs, languages.rs) and the       *)
(* factorization search with its deduplicator and result sink (search.rs). *)
(*                                                                         *)
(* A character is its Unicode code point; a string is a sequence of code   *)
(* points, so that lower-casing, the alphabetic test, string comparison    *)
(* and joining are computed the way the code computes them.                *)
(***************************************************************************)
EXTENDS Integers, Sequences, FiniteSets, TLC

\* ------------------------------------------------------------------------
\* Bounds of the model
\* ------------------------------------------------------------------------
MaxLines == 3
MaxFiles == 2
MaxWords == 3
MaxPhrase == 6

\* ------------------------------------------------------------------------
\* Characters and strings (std::char, std::string as used by the sources)
\* ------------------------------------------------------------------------
\* char::is_uppercase on the modelled code points
is_uppercase(ch) ==
    \/ ch \in 65..90
    \/ ch \in 192..214
    \/ ch \in 216..222
    \/ ch = 256

\* str::to_lowercase, one character
to_lowercase(ch) ==
    IF ch \in 65..90 \/ ch \in 192..214 \/ ch \in 216..222 THEN ch + 32
    ELSE IF ch = 256 THEN 257
    ELSE ch

\* char::is_alphabetic on the modelled code points
is_alphabetic(ch) ==
    \/ ch \in 65..90
    \/ ch \in 97..122
    \/ ch \in {170, 181, 186}
    \/ ch \in 192..214
    \/ ch \in 216..246
    \/ ch \in 248..255
    \/ ch \in 256..257

\* char::is_whitespace, as used by str::trim
is_whitespace(ch) == ch \in 9..13 \/ ch \in {32, 133, 160}

\* str::len of one character: the number of bytes of its UTF-8 encoding
utf8_len(ch) == IF ch < 128 THEN 1 ELSE 2

\* str::len, in bytes
RECURSIVE str_len(_)
str_len(s) == IF s = <<>> THEN 0 ELSE utf8_len(Head(s)) + str_len(Tail(s))

\* str::trim
RECURSIVE trim_start(_)
trim_start(s) ==
    IF s # <<>> /\ is_whitespace(Head(s)) THEN trim_start(Tail(s)) ELSE s

RECURSIVE trim_end(_)
trim_end(s) ==
    IF s # <<>> /\ is_whitespace(s[Len(s)])
    THEN trim_end(SubSeq(s, 1, Len(s) - 1)) ELSE s

trim(s) == trim_end(trim_start(s))

\* Ord for String: lexicographic order of the code points
str_lt(s, t) ==
    \E k \in 0..Len(s) :
        /\ k <= Len(t)
        /\ \A j \in 1..k : s[j] = t[j]
        /\ \/ k = Len(s) /\ k < Len(t)
           \/ k < Len(s) /\ k < Len(t) /\ s[k + 1] < t[k + 1]

str_le(s, t) == s = t \/ str_lt(s, t)

\* [String]::join(sep)
RECURSIVE join(_, _)
join(strs, sep) ==
    IF strs = <<>> THEN <<>>
    ELSE IF Len(strs) = 1 THEN strs[1]
    ELSE strs[1] \o sep \o join(Tail(strs), sep)

\* Vec<String>::sort_unstable: equal strings are indistinguishable, hence
\* the result is the one ascending arrangement
RECURSIVE sort_unstable(_)
sort_unstable(v) ==
    IF v = <<>> THEN <<>>
    ELSE LET m == CHOOSE k \in 1..Len(v) : \A j \in 1..Len(v) : str_le(v[k], v[j])
         IN  <<v[m]>> \o sort_unstable(SubSeq(v, 1, m - 1) \o SubSeq(v, m + 1, Len(v)))

\* ------------------------------------------------------------------------
\* primes.rs
\* ------------------------------------------------------------------------
PRIMES ==
    <<2,3,5,7,11,13,17,19,23,29,31,37,41,43,47,53,59,61,67,71,73,79,83,89,97,101,
      103,107,109,113,127,131,137,139,149,151,157,163,167,173,179,181,
      191,193,197,199,211,223,227,229,233,239,241,251,257,263,269,271,
      277,281,283,293,307,311,313,317,331,337,347,349,353,359,367,373,
      379,383,389,397,401,409,419,421,431,433,439,443,449,457,461,463,
      467,479,487,491,499,503,509,521,523,541,547,557,563,569,571,577,
      587,593,599,601,607,613,617,619,631,641,643,647,653,659,661,673,
      677,683,691,701,709,719,727,733,739,743,751,757,761,769,773,787,
      797,809,811,821,823,827,829,839,853,857,859,863,877,881,883,887,
      907,911,919,929,937,941,947,953,967,971,977,983,991,997,1009,1013,
      1019,1021,1031,1033,1039,1049,1051,1061,1063,1069,1087,1091,1093,
      1097,1103,1109,1117,1123,1129,1151,1153,1163,1171,1181,1187,1193,
      1201,1213,1217,1223>>

\* hash that gives two letters the same index
hash_shared(ch) ==
    IF ch \in 97..122 THEN (ch - 97) \div 2
    ELSE IF ch \in 161..255 THEN 26 + ch - 161
    ELSE -1

\* Option<usize>: None is -1, Some(index) is the zero-based index
hash(ch) ==
    IF ch \in 97..122 THEN ch - 97
    ELSE IF ch \in 161..255 THEN 26 + ch - 161
    ELSE -1

RECURSIVE extract_unique_from(_, _)
extract_unique_from(word, pattern) ==
    IF word = <<>> THEN pattern
    ELSE LET ch == to_lowercase(Head(word))
         IN  IF is_alphabetic(ch) /\ \A k \in 1..Len(pattern) : pattern[k] # ch
             THEN extract_unique_from(Tail(word), Append(pattern, ch))
             ELSE extract_unique_from(Tail(word), pattern)

extract_unique_chars(word) == extract_unique_from(word, <<>>)

RECURSIVE essential_chars(_)
essential_chars(word) ==
    IF word = <<>> THEN <<>>
    ELSE LET ch == to_lowercase(Head(word))
         IN  IF is_alphabetic(ch) THEN <<ch>> \o essential_chars(Tail(word))
             ELSE essential_chars(Tail(word))

matched_chars(word, pattern) ==
    \A k \in 1..Len(word) : \E j \in 1..Len(pattern) : pattern[j] = word[k]

\* Result<Vec<u16>>
primes(essential) ==
    IF \E k \in 1..Len(essential) : hash(essential[k]) = -1
    THEN [ok |-> FALSE, err |-> "CharOutOfBounds", value |-> <<>>]
    ELSE [ok |-> TRUE, err |-> "",
          value |-> [k \in 1..Len(essential) |-> PRIMES[hash(essential[k]) + 1]]]

\* Result<BigUint>; every u16 converts, so PrimeTooBig is never produced
RECURSIVE primes_product(_)
primes_product(ps) ==
    IF ps = <<>> THEN 1 ELSE Head(ps) * primes_product(Tail(ps))

\* filter_word that matches the characters before it compares the lengths
filter_word_chars_first(word, pattern, input_length, input_product) ==
    LET word_chars   == essential_chars(word)
        unique_chars == extract_unique_chars(word)
        p            == primes(word_chars)
        product      == primes_product(p.value)
    IN  IF ~matched_chars(unique_chars, pattern)
            THEN [ok |-> FALSE, err |-> "MismatchedChars", value |-> 0]
        ELSE IF str_len(word_chars) > input_length
            THEN [ok |-> FALSE, err |-> "WordTooLong", value |-> 0]
        ELSE IF ~p.ok
            THEN [ok |-> FALSE, err |-> p.err, value |-> 0]
        ELSE IF product > input_product
            THEN [ok |-> FALSE, err |-> "WordProductTooBig", value |-> 0]
        ELSE IF input_product % product # 0
            THEN [ok |-> FALSE, err |-> "WordProductNotFactor", value |-> 0]
        ELSE [ok |-> TRUE, err |-> "", value |-> product]

\* filter_word without the test of the remainder
filter_word_any_product(word, pattern, input_length, input_product) ==
    LET word_chars   == essential_chars(word)
        unique_chars == extract_unique_chars(word)
        p            == primes(word_chars)
        product      == primes_product(p.value)
    IN  IF str_len(word_chars) > input_length
            THEN [ok |-> FALSE, err |-> "WordTooLong", value |-> 0]
        ELSE IF ~matched_chars(unique_chars, pattern)
            THEN [ok |-> FALSE, err |-> "MismatchedChars", value |-> 0]
        ELSE IF ~p.ok
            THEN [ok |-> FALSE, err |-> p.err, value |-> 0]
        ELSE IF product > input_product
            THEN [ok |-> FALSE, err |-> "WordProductTooBig", value |-> 0]
        ELSE [ok |-> TRUE, err |-> "", value |-> product]

\* Result<BigUint>
filter_word(word, pattern, input_length, input_product) ==
    LET word_chars   == essential_chars(word)
        unique_chars == extract_unique_chars(word)
        p            == primes(word_chars)
        product      == primes_product(p.value)
    IN  IF str_len(word_chars) > input_length
            THEN [ok |-> FALSE, err |-> "WordTooLong", value |-> 0]
        ELSE IF ~matched_chars(unique_chars, pattern)
            THEN [ok |-> FALSE, err |-> "MismatchedChars", value |-> 0]
        ELSE IF ~p.ok
            THEN [ok |-> FALSE, err |-> p.err, value |-> 0]
        ELSE IF product > input_product
            THEN [ok |-> FALSE, err |-> "WordProductTooBig", value |-> 0]
        ELSE IF input_product % product # 0
            THEN [ok |-> FALSE, err |-> "WordProductNotFactor", value |-> 0]
        ELSE [ok |-> TRUE, err |-> "", value |-> product]

\* ------------------------------------------------------------------------
\* languages.rs
\* ------------------------------------------------------------------------
\* "I"
UPCASE(lang) == IF lang = "EN" THEN {<<73>>} ELSE {}

\* "I", "a" for EN; "y" for ES
SHORT(lang) ==
    IF lang = "EN" THEN {<<73>>, <<97>>}
    ELSE IF lang = "ES" THEN {<<121>>}
    ELSE {}

\* TRUE means: reject the word
filter(word, short_words, upcase_words, skip_short, skip_upcase) ==
    IF str_len(word) = 1
    THEN IF skip_short THEN TRUE
         ELSE IF short_words = {} THEN FALSE
         ELSE word \notin short_words
    ELSE IF word # <<>> /\ is_uppercase(word[1])
    THEN IF skip_upcase THEN TRUE
         ELSE IF upcase_words = {} THEN FALSE
         ELSE word \notin upcase_words
    ELSE FALSE

\* ------------------------------------------------------------------------
\* Inputs: query phrases, configurations and dictionary lines
\* ------------------------------------------------------------------------
\* Raw dictionary lines, as read_until delivers them (decoded):
\* "a", "a a", "bb", "ab", "ba", "b", "abab", "Ab", "ac", "''", "ab\n", "\n"
Lines ==
    { <<97>>, <<97, 32, 97>>, <<98, 98>>, <<97, 98>>, <<98, 97>>, <<98>>,
      <<97, 98, 97, 98>>, <<65, 98>>, <<97, 99>>, <<39, 39>>,
      <<97, 98, 10>>, <<10>> }

\* (input_phrase, must_include) pairs:
\* "ab ab"; "aabb" with "b"; "aabb" with "bbb"; "a" followed by U+0101
Queries ==
    { [input_phrase |-> << <<97, 98>>, <<97, 98>> >>, must_include |-> <<>>],
      [input_phrase |-> << <<97, 97, 98, 98>> >>, must_include |-> << <<98>> >>],
      [input_phrase |-> << <<97, 97, 98, 98>> >>, must_include |-> << <<98, 98, 98>> >>],
      [input_phrase |-> << <<97, 257>> >>, must_include |-> <<>>] }

\* must_exclude lists handed to load_and_select: none, or "ba"
Exclusions == { <<>>, << <<98, 97>> >> }

\* Config, reduced to the fields the library reads
Configs ==
    [lang : {"EN", "Any"}, include_short : BOOLEAN, include_upcase : BOOLEAN,
     max_phrase_words : 1..MaxWords]

\* Configurations under which the search is explored: the flags of the test
\* suite (test_search.rs), with and without a language allowlist
SearchConfigs ==
    {c \in Configs : ~c.include_short /\ ~c.include_upcase}

\* Configurations under which the lexicon builder is explored on its own:
\* the word budget is not read by load_and_select
LoadConfigs == {c \in Configs : c.max_phrase_words = 1}

\* ------------------------------------------------------------------------
\* State
\* ------------------------------------------------------------------------
VARIABLES
    pc,               \* position of the caller in the usage sequence
    input_phrase,     \* Search.input_phrase
    must_include,     \* Search.must_include
    must_exclude,     \* load_and_select parameter
    config,           \* Config
    search,           \* the Search value returned by Search::query
    map,              \* load_and_select: the PMap being built
    single_word_list, \* load_and_select: exact single-word matches
    previous,         \* load_and_select: last line that reached the filter
    nfiles,           \* dictionary files opened so far
    nlines,           \* dictionary lines read so far
    load_result,      \* what load_and_select returned: "", "Ok" or an error
    io,               \* outcome of the last File::open or read_until
    descending_keys,  \* Cache.descending_keys
    tx,               \* SearchBuilder.tx is Some
    max_duration,     \* SearchBuilder.max_duration is Some
    expired,          \* time.elapsed() > max_duration holds by now
    rx_alive,         \* the Receiver of the channel still exists
    channel,          \* messages accepted by the channel, in order
    i,                \* brute_force: index of the seeding loop
    deque,            \* brute_force: the task queue
    results,          \* brute_force: the Candidate table
    stopped,          \* brute_force: why the loops ended
    returned,         \* the Vec returned by brute_force
    call,             \* a library function called on its own: name, arguments
    ret               \* what that call returned

vars == <<pc, input_phrase, must_include, must_exclude, config, search, map,
          single_word_list, previous, nfiles, nlines, load_result, io,
          descending_keys, tx, max_duration, expired, rx_alive, channel, i, deque,
          results, stopped, returned, call, ret>>

callVars   == <<call, ret>>
queryVars  == <<input_phrase, must_include, must_exclude, config>>
loadVars   == <<map, single_word_list, previous, nfiles, nlines, load_result, io>>
searchVars == <<descending_keys, tx, max_duration, expired, rx_alive, channel, i, deque,
                results, stopped, returned>>

NoCall == [fn |-> ""]
NoRet  == [ok |-> FALSE]

NoSearch == [ok |-> FALSE, err |-> "", pattern |-> <<>>, essential |-> <<>>,
             primes |-> <<>>, primes_product |-> 0]

InitWith(cfgs, excl) ==
    /\ pc = "query"
    /\ \E q \in Queries :
          /\ input_phrase = q.input_phrase
          /\ must_include = q.must_include
    /\ must_exclude \in excl
    /\ config \in cfgs
    /\ search = NoSearch
    /\ map = <<>>
    /\ single_word_list = <<>>
    /\ previous = <<>>
    /\ nfiles = 0
    /\ nlines = 0
    /\ load_result = ""
    /\ io = ""
    /\ descending_keys = <<>>
    /\ tx = FALSE
    /\ max_duration = FALSE
    /\ expired = FALSE
    /\ rx_alive = FALSE
    /\ channel = <<>>
    /\ i = 0
    /\ deque = <<>>
    /\ results = <<>>
    /\ stopped = ""
    /\ returned = <<>>
    /\ call = NoCall
    /\ ret = NoRet

Init == InitWith(SearchConfigs, {<<>>})

InitLoad == InitWith(LoadConfigs, Exclusions)

\* ------------------------------------------------------------------------
\* search.rs: Search::query
\* ------------------------------------------------------------------------
Search_query(phrase, include) ==
    LET input_string == join(phrase, <<>>)
        pattern      == extract_unique_chars(input_string)
        essential    == essential_chars(input_string)
        ps           == primes(essential)
        product      == primes_product(ps.value)
        e            == essential_chars(join(include, <<>>))
        p            == primes(e)
        denominator  == primes_product(p.value)
    IN  IF ~ps.ok THEN [NoSearch EXCEPT !.err = ps.err]
        ELSE IF include # <<>> /\ ~p.ok THEN [NoSearch EXCEPT !.err = p.err]
        ELSE [ok |-> TRUE, err |-> "", pattern |-> pattern,
              essential |-> essential, primes |-> ps.value,
              primes_product |->
                  IF include # <<>> THEN product \div denominator ELSE product]

Query ==
    /\ pc = "query"
    /\ search' = Search_query(input_phrase, must_include)
    /\ pc' = IF search'.ok THEN "load" ELSE "failed"
    /\ UNCHANGED <<callVars, queryVars, loadVars, searchVars>>

\* ------------------------------------------------------------------------
\* words.rs: load_and_select
\* ------------------------------------------------------------------------
\* map.entry(product).and_modify(push, sort_unstable).or_insert_with(vec![word])
map_entry_insert(m, product, word) ==
    IF product \in DOMAIN m
    THEN [m EXCEPT ![product] = sort_unstable(Append(m[product], word))]
    ELSE (product :> <<word>>) @@ m

\* line_outcome that tests for a product above the target
line_outcome_above(word, prev) ==
    IF word = <<>> THEN "blank"
    ELSE IF word = prev THEN "duplicate"
    ELSE IF \E k \in 1..Len(must_exclude) : must_exclude[k] = word THEN "excluded"
    ELSE IF filter(word, SHORT(config.lang), UPCASE(config.lang),
                   config.include_short, config.include_upcase) THEN "filtered"
    ELSE LET r == filter_word(word, search.pattern, str_len(search.essential),
                              search.primes_product)
         IN  IF ~r.ok THEN r.err
             ELSE IF r.value > search.primes_product THEN "single"
             ELSE "lexicon"

\* What the loop body does with one trimmed line
line_outcome(word, prev) ==
    IF word = <<>> THEN "blank"
    ELSE IF word = prev THEN "duplicate"
    ELSE IF \E k \in 1..Len(must_exclude) : must_exclude[k] = word THEN "excluded"
    ELSE IF filter(word, SHORT(config.lang), UPCASE(config.lang),
                   config.include_short, config.include_upcase) THEN "filtered"
    ELSE LET r == filter_word(word, search.pattern, str_len(search.essential),
                              search.primes_product)
         IN  IF ~r.ok THEN r.err
             ELSE IF r.value = search.primes_product THEN "single"
             ELSE "lexicon"

\* error.rs: From<std::io::Error> for AnagramError, by err.kind()
From_io_Error(kind) ==
    IF kind = "NotFound" THEN "NoFilePath" ELSE "UnknownIoError"

\* for filepath in config.dict_file_paths: File::open succeeded
OpenFile ==
    /\ pc = "load"
    /\ nfiles < MaxFiles
    /\ nfiles' = nfiles + 1
    /\ previous' = <<>>
    /\ io' = "Ok"
    /\ pc' = "read"
    /\ UNCHANGED <<callVars, queryVars, search, map, single_word_list, nlines,
                   load_result, searchVars>>

\* File::open(filepath)? failed: the error is converted and returned
OpenFail ==
    /\ pc = "load"
    /\ nfiles < MaxFiles
    /\ \E kind \in {"NotFound", "Other"} :
          /\ io' = kind
          /\ load_result' = From_io_Error(kind)
    /\ pc' = "failed"
    /\ UNCHANGED <<callVars, queryVars, search, map, single_word_list, previous, nfiles,
                   nlines, searchVars>>

\* read_until returned Ok(n), n > 0: one iteration of the loop
ReadLine ==
    /\ pc = "read"
    /\ nlines < MaxLines
    /\ \E line \in Lines :
          LET word == trim(line)
              out  == line_outcome(word, previous)
              kept == out \notin {"blank", "duplicate", "excluded", "filtered"}
              product == primes_product(primes(essential_chars(word)).value)
          IN  /\ map' = IF out = "lexicon"
                        THEN map_entry_insert(map, product, word) ELSE map
              /\ single_word_list' =
                    IF out = "single" THEN Append(single_word_list, word)
                    ELSE single_word_list
              /\ previous' = IF kept THEN word ELSE previous
    /\ nlines' = nlines + 1
    /\ io' = "Ok"
    /\ UNCHANGED <<pc, callVars, queryVars, search, nfiles, load_result, searchVars>>

\* read_until returned Ok(0): end of this file
EndOfFile ==
    /\ pc = "read"
    /\ io' = "Eof"
    /\ pc' = "load"
    /\ UNCHANGED <<callVars, queryVars, search, map, single_word_list, previous,
                   nfiles, nlines, load_result, searchVars>>

\* read_until returned Err(e): the error is printed and the loop of this
\* file is left with break
ReadFail ==
    /\ pc = "read"
    /\ io' = "Other"
    /\ pc' = "load"
    /\ UNCHANGED <<callVars, queryVars, search, map, single_word_list, previous,
                   nfiles, nlines, load_result, searchVars>>

\* Every path was read: Ok((map, single_word_list)); the locals are gone
LoadReturn ==
    /\ pc = "load"
    /\ load_result' = "Ok"
    /\ previous' = <<>>
    /\ nfiles' = 0
    /\ nlines' = 0
    /\ io' = ""
    /\ pc' = "loaded"
    /\ UNCHANGED <<callVars, queryVars, search, map, single_word_list, searchVars>>

\* Cache::init: the keys of the map, high to low
RECURSIVE sort_descending(_)
sort_descending(keys) ==
    IF keys = {} THEN <<>>
    ELSE LET m == CHOOSE k \in keys : \A j \in keys : j <= k
         IN  <<m>> \o sort_descending(keys \ {m})

\* Cache::init that leaves out the smallest key
Cache_init_without_last(m) ==
    LET high_to_low == sort_descending(DOMAIN m)
    IN  SubSeq(high_to_low, 1, Len(high_to_low) - 1)

\* Cache::init that sorts the keys low to high
Cache_init_ascending(m) ==
    LET high_to_low == sort_descending(DOMAIN m)
    IN  [k \in 1..Len(high_to_low) |-> high_to_low[Len(high_to_low) + 1 - k]]

Cache_init(m) == sort_descending(DOMAIN m)

CacheInit ==
    /\ pc = "loaded"
    /\ descending_keys' = Cache_init(map)
    /\ pc' = "cached"
    /\ UNCHANGED <<callVars, queryVars, search, loadVars, tx, max_duration, expired, rx_alive,
                   channel, i, deque, results, stopped, returned>>

NextLoad == Query \/ OpenFile \/ OpenFail \/ ReadLine \/ EndOfFile \/ ReadFail
               \/ LoadReturn \/ CacheInit

SpecLoad == InitLoad /\ [][NextLoad]_vars

\* ------------------------------------------------------------------------
\* search.rs: Search::enrich / Search::add_cache
\* ------------------------------------------------------------------------
\* enrich(cache, tx, max_duration); add_cache is enrich(cache, None, None)
Enrich ==
    /\ pc = "cached"
    /\ tx' \in BOOLEAN
    /\ max_duration' \in BOOLEAN
    /\ rx_alive' = tx'
    /\ pc' = "enriched"
    /\ UNCHANGED <<callVars, queryVars, search, loadVars, descending_keys, expired,
                   channel, i, deque, results, stopped, returned>>

\* ------------------------------------------------------------------------
\* search.rs: Task
\* ------------------------------------------------------------------------
\* Task::new that grants one word more than the configuration
Task_new_budget_above ==
    [target      |-> search.primes_product,
     index       |-> 0,
     max_words   |-> config.max_phrase_words + 1,
     accumulator |-> IF must_include = <<>> THEN <<>> ELSE <<must_include>>,
     acc_product |-> 1]

Task_new ==
    [target      |-> search.primes_product,
     index       |-> 0,
     max_words   |-> config.max_phrase_words,
     accumulator |-> IF must_include = <<>> THEN <<>> ELSE <<must_include>>,
     acc_product |-> 1]

NoTask == [target |-> 0, index |-> 0, max_words |-> 0, accumulator |-> <<>>,
           acc_product |-> 0]

Reject == [kind |-> "Reject", task |-> NoTask, phrase |-> <<>>, branch |-> NoTask]

Unchanged(t) ==
    [kind |-> "Unchanged", task |-> t, phrase |-> <<>>, branch |-> NoTask]

Complete(t, anagram) ==
    [kind |-> "Complete", task |-> t, phrase |-> anagram, branch |-> NoTask]

Branch(t, new_task) ==
    [kind |-> "Branch", task |-> t, phrase |-> <<>>, branch |-> new_task]

\* factor_i with a completion test that accepts any factor of the target
factor_i_any_factor(self, n) ==
    IF n >= Len(descending_keys) THEN Reject
    ELSE
    LET test_product == descending_keys[n + 1]
        next         == [self EXCEPT !.index = n + 1]
    IN  IF test_product > self.target THEN Unchanged(next)
        ELSE IF test_product \in DOMAIN map
        THEN LET words       == map[test_product]
                 accumulator == Append(self.accumulator, words)
                 acc_product == test_product * self.acc_product
             IN  IF self.target % test_product = 0
                     THEN Complete(next, accumulator)
                 ELSE IF acc_product = search.primes_product
                     THEN Complete(next, accumulator)
                 ELSE IF self.max_words = 1 \/ acc_product > search.primes_product
                     THEN Reject
                 ELSE IF self.target % test_product = 0
                     THEN Branch(next,
                                 [self EXCEPT
                                     !.target = self.target \div test_product,
                                     !.max_words = self.max_words - 1,
                                     !.accumulator = accumulator,
                                     !.acc_product = acc_product])
                 ELSE Unchanged(next)
        ELSE Unchanged(next)

\* factor_i that compares the budget with 0 instead of 1
factor_i_budget_zero(self, n) ==
    IF n >= Len(descending_keys) THEN Reject
    ELSE
    LET test_product == descending_keys[n + 1]
        next         == [self EXCEPT !.index = n + 1]
    IN  IF test_product > self.target THEN Unchanged(next)
        ELSE IF test_product \in DOMAIN map
        THEN LET words       == map[test_product]
                 accumulator == Append(self.accumulator, words)
                 acc_product == test_product * self.acc_product
             IN  IF test_product = self.target
                     THEN Complete(next, accumulator)
                 ELSE IF acc_product = search.primes_product
                     THEN Complete(next, accumulator)
                 ELSE IF self.max_words = 0 \/ acc_product > search.primes_product
                     THEN Reject
                 ELSE IF self.target % test_product = 0
                     THEN Branch(next,
                                 [self EXCEPT
                                     !.target = self.target \div test_product,
                                     !.max_words = self.max_words - 1,
                                     !.accumulator = accumulator,
                                     !.acc_product = acc_product])
                 ELSE Unchanged(next)
        ELSE Unchanged(next)

\* factor_i whose continuing task keeps the word of a Complete
factor_i_complete_keeps_word(self, n) ==
    IF n >= Len(descending_keys) THEN Reject
    ELSE
    LET test_product == descending_keys[n + 1]
        next         == [self EXCEPT !.index = n + 1]
    IN  IF test_product > self.target THEN Unchanged(next)
        ELSE IF test_product \in DOMAIN map
        THEN LET words       == map[test_product]
                 accumulator == Append(self.accumulator, words)
                 acc_product == test_product * self.acc_product
             IN  IF test_product = self.target
                     THEN Complete([next EXCEPT !.accumulator = accumulator],
                                   accumulator)
                 ELSE IF acc_product = search.primes_product
                     THEN Complete([next EXCEPT !.accumulator = accumulator],
                                   accumulator)
                 ELSE IF self.max_words = 1 \/ acc_product > search.primes_product
                     THEN Reject
                 ELSE IF self.target % test_product = 0
                     THEN Branch(next,
                                 [self EXCEPT
                                     !.target = self.target \div test_product,
                                     !.max_words = self.max_words - 1,
                                     !.accumulator = accumulator,
                                     !.acc_product = acc_product])
                 ELSE Unchanged(next)
        ELSE Unchanged(next)

\* factor_i whose Branch does not lower the budget
factor_i_budget_kept(self, n) ==
    IF n >= Len(descending_keys) THEN Reject
    ELSE
    LET test_product == descending_keys[n + 1]
        next         == [self EXCEPT !.index = n + 1]
    IN  IF test_product > self.target THEN Unchanged(next)
        ELSE IF test_product \in DOMAIN map
        THEN LET words       == map[test_product]
                 accumulator == Append(self.accumulator, words)
                 acc_product == test_product * self.acc_product
             IN  IF test_product = self.target
                     THEN Complete(next, accumulator)
                 ELSE IF acc_product = search.primes_product
                     THEN Complete(next, accumulator)
                 ELSE IF self.max_words = 1 \/ acc_product > search.primes_product
                     THEN Reject
                 ELSE IF self.target % test_product = 0
                     THEN Branch(next,
                                 [self EXCEPT
                                     !.target = self.target \div test_product,
                                     !.accumulator = accumulator,
                                     !.acc_product = acc_product])
                 ELSE Unchanged(next)
        ELSE Unchanged(next)

\* factor_i whose Unchanged leaves the cursor where it was
factor_i_cursor_kept(self, n) ==
    IF n >= Len(descending_keys) THEN Reject
    ELSE
    LET test_product == descending_keys[n + 1]
        next         == [self EXCEPT !.index = n + 1]
    IN  IF test_product > self.target THEN Unchanged(self)
        ELSE IF test_product \in DOMAIN map
        THEN LET words       == map[test_product]
                 accumulator == Append(self.accumulator, words)
                 acc_product == test_product * self.acc_product
             IN  IF test_product = self.target
                     THEN Complete(next, accumulator)
                 ELSE IF acc_product = search.primes_product
                     THEN Complete(next, accumulator)
                 ELSE IF self.max_words = 1 \/ acc_product > search.primes_product
                     THEN Reject
                 ELSE IF self.target % test_product = 0
                     THEN Branch(next,
                                 [self EXCEPT
                                     !.target = self.target \div test_product,
                                     !.max_words = self.max_words - 1,
                                     !.accumulator = accumulator,
                                     !.acc_product = acc_product])
                 ELSE Unchanged(self)
        ELSE Unchanged(self)

\* factor_i whose Branch does not divide the target
factor_i_branch_keeps_target(self, n) ==
    IF n >= Len(descending_keys) THEN Reject
    ELSE
    LET test_product == descending_keys[n + 1]
        next         == [self EXCEPT !.index = n + 1]
    IN  IF test_product > self.target THEN Unchanged(next)
        ELSE IF test_product \in DOMAIN map
        THEN LET words       == map[test_product]
                 accumulator == Append(self.accumulator, words)
                 acc_product == test_product * self.acc_product
             IN  IF test_product = self.target
                     THEN Complete(next, accumulator)
                 ELSE IF acc_product = search.primes_product
                     THEN Complete(next, accumulator)
                 ELSE IF self.max_words = 1 \/ acc_product > search.primes_product
                     THEN Reject
                 ELSE IF self.target % test_product = 0
                     THEN Branch(next,
                                 [self EXCEPT
                                     !.max_words = self.max_words - 1,
                                     !.accumulator = accumulator,
                                     !.acc_product = acc_product])
                 ELSE Unchanged(next)
        ELSE Unchanged(next)

\* factor_i whose Branch keeps the target, the accumulated product and the
\* budget of its parent
factor_i_branch_as_parent(self, n) ==
    IF n >= Len(descending_keys) THEN Reject
    ELSE
    LET test_product == descending_keys[n + 1]
        next         == [self EXCEPT !.index = n + 1]
    IN  IF test_product > self.target THEN Unchanged(next)
        ELSE IF test_product \in DOMAIN map
        THEN LET words       == map[test_product]
                 accumulator == Append(self.accumulator, words)
                 acc_product == test_product * self.acc_product
             IN  IF test_product = self.target
                     THEN Complete(next, accumulator)
                 ELSE IF acc_product = search.primes_product
                     THEN Complete(next, accumulator)
                 ELSE IF self.max_words = 1 \/ acc_product > search.primes_product
                     THEN Reject
                 ELSE IF self.target % test_product = 0
                     THEN Branch(next, [self EXCEPT !.accumulator = accumulator])
                 ELSE Unchanged(next)
        ELSE Unchanged(next)

\* Task::factor_i; descending_keys is indexed from 0 in the code.
\* max_words is a usize: a value -n stands for 2^64 - n, what the decrement
\* of 0 leaves in a build without overflow checks.
factor_i(self, n) ==
    IF n >= Len(descending_keys) THEN Reject
    ELSE
    LET test_product == descending_keys[n + 1]
        next         == [self EXCEPT !.index = n + 1]
    IN  IF test_product > self.target THEN Unchanged(next)
        ELSE IF test_product \in DOMAIN map
        THEN LET words       == map[test_product]
                 accumulator == Append(self.accumulator, words)
                 acc_product == test_product * self.acc_product
             IN  IF test_product = self.target
                     THEN Complete(next, accumulator)
                 ELSE IF acc_product = search.primes_product
                     THEN Complete(next, accumulator)
                 ELSE IF self.max_words = 1 \/ acc_product > search.primes_product
                     THEN Reject
                 ELSE IF self.target % test_product = 0
                     THEN Branch(next,
                                 [self EXCEPT
                                     !.target = self.target \div test_product,
                                     !.max_words = self.max_words - 1,
                                     !.accumulator = accumulator,
                                     !.acc_product = acc_product])
                 ELSE Unchanged(next)
        ELSE Unchanged(next)

\* ------------------------------------------------------------------------
\* search.rs: Candidate
\* ------------------------------------------------------------------------
remove_at(v, k) == SubSeq(v, 1, k - 1) \o SubSeq(v, k + 1, Len(v))

\* phrase.sort_unstable_by(|a, b| a[0].cmp(&b[0])): every arrangement that
\* is ascending in the first word; groups with equal first words may end up
\* in either order
RECURSIVE sort_unstable_by_first(_)
sort_unstable_by_first(phrase) ==
    IF phrase = <<>> THEN {<<>>}
    ELSE UNION { { <<phrase[m]>> \o rest :
                     rest \in sort_unstable_by_first(remove_at(phrase, m)) } :
                 m \in { k \in 1..Len(phrase) :
                           \A j \in 1..Len(phrase) :
                               str_le(phrase[k][1], phrase[j][1]) } }

\* The key under which a sorted phrase is stored
phrase_key(phrase) ==
    join([k \in 1..Len(phrase) |-> phrase[k][1]], <<32>>)

\* Candidate::push_if_unique on a phrase already sorted:
\* the new table and the UniqueAnagram returned
push_if_unique(table, phrase) ==
    LET string == phrase_key(phrase)
    IN  IF string \in DOMAIN table
        THEN [table |-> table, unique |-> FALSE, phrase |-> <<>>]
        ELSE [table |-> (string :> phrase) @@ table, unique |-> TRUE,
              phrase |-> phrase]

\* Candidate::phrases: the values in ascending order of their keys
RECURSIVE values_by_key(_, _)
values_by_key(table, keys) ==
    IF keys = {} THEN <<>>
    ELSE LET m == CHOOSE k \in keys : \A j \in keys : str_le(k, j)
         IN  <<table[m]>> \o values_by_key(table, keys \ {m})

phrases(table) == values_by_key(table, DOMAIN table)

\* ------------------------------------------------------------------------
\* search.rs: SearchBuilder::brute_force
\* ------------------------------------------------------------------------
Some(p) == [some |-> TRUE, phrase |-> p]
None    == [some |-> FALSE, phrase |-> <<>>]

\* The clock of brute_force: with a time budget, time.elapsed() may pass it
\* during any step, and stays beyond it from then on
tick == IF max_duration /\ ~expired THEN BOOLEAN ELSE {expired}

\* Task::new, Candidate::new, Instant::now, the deque: the state before the
\* first loop
BruteForce ==
    /\ pc = "enriched"
    /\ expired' \in tick
    /\ i' = 0
    /\ deque' = <<>>
    /\ results' = <<>>
    /\ pc' = IF Len(descending_keys) = 0 THEN "drain" ELSE "seed"
    /\ UNCHANGED <<callVars, queryVars, search, loadVars, descending_keys, tx,
                   max_duration, rx_alive, channel, stopped, returned>>

\* The arm for State::Complete that sends whatever push_if_unique answered
CompleteArm_send_all(anagram, sent) ==
    \E sorted \in sort_unstable_by_first(anagram) :
        LET r == push_if_unique(results, sorted)
        IN  /\ results' = r.table
            /\ IF tx
               THEN \E delivered \in (IF rx_alive THEN BOOLEAN ELSE {FALSE}) :
                       /\ rx_alive' = delivered
                       /\ channel' = IF delivered
                                     THEN Append(channel, Some(sorted))
                                     ELSE channel
                       /\ sent = delivered
               ELSE /\ UNCHANGED <<rx_alive, channel>>
                    /\ sent = TRUE

\* The arm for State::Complete with a push_if_unique that does not sort
CompleteArm_unsorted(anagram, sent) ==
    LET r == push_if_unique(results, anagram)
    IN  /\ results' = r.table
        /\ IF r.unique /\ tx
           THEN \E delivered \in (IF rx_alive THEN BOOLEAN ELSE {FALSE}) :
                   /\ rx_alive' = delivered
                   /\ channel' = IF delivered
                                 THEN Append(channel, Some(r.phrase))
                                 ELSE channel
                   /\ sent = delivered
           ELSE /\ UNCHANGED <<rx_alive, channel>>
                /\ sent = TRUE

\* The arm for State::Complete: push_if_unique, then tx.send(Some(p)).
\* sent is FALSE when the send returned an error.
CompleteArm(anagram, sent) ==
    \E sorted \in sort_unstable_by_first(anagram) :
        LET r == push_if_unique(results, sorted)
        IN  /\ results' = r.table
            /\ IF r.unique /\ tx
               THEN \E delivered \in (IF rx_alive THEN BOOLEAN ELSE {FALSE}) :
                       /\ rx_alive' = delivered
                       /\ channel' = IF delivered
                                     THEN Append(channel, Some(r.phrase))
                                     ELSE channel
                       /\ sent = delivered
               ELSE /\ UNCHANGED <<rx_alive, channel>>
                    /\ sent = TRUE

\* for i in 0..limit { task.clone().factor_i(i) ... }
SeedStep ==
    /\ pc = "seed"
    /\ i < Len(descending_keys)
    /\ expired' \in tick
    /\ LET state == factor_i(Task_new, i)
       IN  \E sent \in BOOLEAN :
             /\ CASE state.kind = "Unchanged" ->
                       /\ deque' = Append(deque, state.task)
                       /\ sent = TRUE
                       /\ UNCHANGED <<results, rx_alive, channel>>
                  [] state.kind = "Reject" ->
                       /\ sent = TRUE
                       /\ UNCHANGED <<deque, results, rx_alive, channel>>
                  [] state.kind = "Complete" ->
                       /\ deque' = Append(deque, state.task)
                       /\ CompleteArm(state.phrase, sent)
                  [] state.kind = "Branch" ->
                       /\ deque' = deque \o <<state.task, state.branch>>
                       /\ sent = TRUE
                       /\ UNCHANGED <<results, rx_alive, channel>>
             /\ i' = i + 1
             /\ pc' = IF ~sent \/ i + 1 >= Len(descending_keys)
                      THEN "drain" ELSE "seed"
    /\ UNCHANGED <<callVars, queryVars, search, loadVars, descending_keys, tx,
                   max_duration, stopped, returned>>

\* The drain loop with push_back in the Branch arm
DrainStep_push_back ==
    /\ pc = "drain"
    /\ deque # <<>>
    /\ Len(Head(deque).accumulator) <= MaxPhrase
    /\ expired' \in tick
    /\ LET task  == Head(deque)
           rest  == Tail(deque)
           state == factor_i(task, task.index)
       IN  \E sent \in BOOLEAN :
             /\ CASE state.kind = "Unchanged" ->
                       /\ deque' = <<state.task>> \o rest
                       /\ sent = TRUE
                       /\ UNCHANGED <<results, rx_alive, channel>>
                  [] state.kind = "Reject" ->
                       /\ deque' = rest
                       /\ sent = TRUE
                       /\ UNCHANGED <<results, rx_alive, channel>>
                  [] state.kind = "Complete" ->
                       /\ deque' = <<state.task>> \o rest
                       /\ CompleteArm(state.phrase, sent)
                  [] state.kind = "Branch" ->
                       /\ deque' = rest \o <<state.task, state.branch>>
                       /\ sent = TRUE
                       /\ UNCHANGED <<results, rx_alive, channel>>
             /\ IF ~sent
                THEN /\ pc' = "finish"
                     /\ stopped' = "send failed"
                ELSE /\ pc' = IF expired' THEN "finish" ELSE "drain"
                     /\ stopped' = IF expired' THEN "time" ELSE stopped
    /\ UNCHANGED <<callVars, queryVars, search, loadVars, descending_keys, tx,
                   max_duration, i, returned>>

\* while let Some(task) = deque.pop_front() { task.clone().factor_i(task.index) ... }
DrainStep ==
    /\ pc = "drain"
    /\ deque # <<>>
    /\ Len(Head(deque).accumulator) <= MaxPhrase
    /\ expired' \in tick
    /\ LET task  == Head(deque)
           rest  == Tail(deque)
           state == factor_i(task, task.index)
       IN  \E sent \in BOOLEAN :
             /\ CASE state.kind = "Unchanged" ->
                       /\ deque' = <<state.task>> \o rest
                       /\ sent = TRUE
                       /\ UNCHANGED <<results, rx_alive, channel>>
                  [] state.kind = "Reject" ->
                       /\ deque' = rest
                       /\ sent = TRUE
                       /\ UNCHANGED <<results, rx_alive, channel>>
                  [] state.kind = "Complete" ->
                       /\ deque' = <<state.task>> \o rest
                       /\ CompleteArm(state.phrase, sent)
                  [] state.kind = "Branch" ->
                       /\ deque' = <<state.branch, state.task>> \o rest
                       /\ sent = TRUE
                       /\ UNCHANGED <<results, rx_alive, channel>>
             /\ IF ~sent
                THEN /\ pc' = "finish"
                     /\ stopped' = "send failed"
                ELSE /\ pc' = IF expired' THEN "finish" ELSE "drain"
                     /\ stopped' = IF expired' THEN "time" ELSE stopped
    /\ UNCHANGED <<callVars, queryVars, search, loadVars, descending_keys, tx,
                   max_duration, i, returned>>

\* The end of brute_force with the marker sent only after a drained queue
Finish_marker_if_drained ==
    /\ \/ pc = "finish"
       \/ pc = "drain" /\ deque = <<>>
    /\ stopped' = IF pc = "drain" THEN "drained" ELSE stopped
    /\ IF tx /\ pc = "drain"
       THEN \E delivered \in (IF rx_alive THEN BOOLEAN ELSE {FALSE}) :
               /\ rx_alive' = delivered
               /\ channel' = IF delivered THEN Append(channel, None) ELSE channel
       ELSE UNCHANGED <<rx_alive, channel>>
    /\ returned' = phrases(results)
    /\ results' = <<>>
    /\ pc' = "done"
    /\ UNCHANGED <<callVars, queryVars, search, loadVars, descending_keys, tx,
                   max_duration, expired, i, deque>>

\* After the loops: tx.send(None), then results.phrases()
Finish ==
    /\ \/ pc = "finish"
       \/ pc = "drain" /\ deque = <<>>
    /\ stopped' = IF pc = "drain" THEN "drained" ELSE stopped
    /\ IF tx
       THEN \E delivered \in (IF rx_alive THEN BOOLEAN ELSE {FALSE}) :
               /\ rx_alive' = delivered
               /\ channel' = IF delivered THEN Append(channel, None) ELSE channel
       ELSE UNCHANGED <<rx_alive, channel>>
    /\ returned' = phrases(results)
    /\ results' = <<>>
    /\ pc' = "done"
    /\ UNCHANGED <<callVars, queryVars, search, loadVars, descending_keys, tx,
                   max_duration, expired, i, deque>>

\* ------------------------------------------------------------------------
\* json.rs and csv.rs: write(filepath, max, singles, phrases)
\* ------------------------------------------------------------------------
\* for terms in phrases { if terms.len() == n { .. } }
with_len(list, n) == SelectSeq(list, LAMBDA terms : Len(terms) = n)

\* json::write: the loop for n in 2..=max that fills anagrams, from n on
RECURSIVE json_anagrams(_, _, _, _, _)
json_anagrams(n, max, list, anagrams, count) ==
    IF n > max THEN anagrams
    ELSE LET found == with_len(list, n)
         IN  IF count + Len(found) = Len(list) THEN anagrams \o found
             ELSE json_anagrams(n + 1, max, list, anagrams \o found,
                                count + Len(found))

\* The JsonExport value that json::write serialises
json_write(max, singles, list) ==
    [transpositions |-> singles,
     anagrams |-> json_anagrams(2, max, list, <<>>, 0)]

\* One row of the CSV file: a title row ("Transpositions", "Anagrams",
\* "{n} words") or a row of fields; empty_row has neither
csv_row(title, n, fields) == [title |-> title, n |-> n, fields |-> fields]
empty_row == csv_row("", 0, <<>>)

\* terms.iter().map(|x| x.join("|")).collect()
csv_record(terms) == csv_row("", 0, [g \in DOMAIN terms |-> join(terms[g], <<124>>)])

\* csv::write: the rows written by the loop for n in 2..=max, from n on
RECURSIVE csv_anagrams(_, _, _, _, _)
csv_anagrams(n, max, list, rows, count) ==
    IF n > max THEN rows
    ELSE LET found   == with_len(list, n)
             records == [k \in DOMAIN found |-> csv_record(found[k])]
             written == rows \o <<csv_row("words", n, <<>>), empty_row>> \o records
         IN  IF count + Len(found) = Len(list) THEN written
             ELSE csv_anagrams(n + 1, max, list, Append(written, empty_row),
                               count + Len(found))

\* The rows that csv::write writes
csv_write(max, singles, list) ==
    <<csv_row("Transpositions", 0, <<>>)>>
    \o [k \in DOMAIN singles |-> csv_row("", 0, <<singles[k]>>)]
    \o <<empty_row, csv_row("Anagrams", 0, <<>>), empty_row>>
    \o csv_anagrams(2, max, list, <<>>, 0)

\* The caller saves what load_and_select and brute_force returned, in both
\* formats, with the budget of the search as max; the files can be written
Export ==
    /\ pc = "done"
    /\ ret = NoRet
    /\ ret' = [ok |-> TRUE,
               json |-> json_write(config.max_phrase_words, single_word_list, returned),
               csv  |-> csv_write(config.max_phrase_words, single_word_list, returned)]
    /\ UNCHANGED <<pc, call, queryVars, search, loadVars, searchVars>>

Next == \/ Query
        \/ OpenFile
        \/ OpenFail
        \/ ReadLine
        \/ EndOfFile
        \/ ReadFail
        \/ LoadReturn
        \/ CacheInit
        \/ Enrich
        \/ BruteForce
        \/ SeedStep
        \/ DrainStep
        \/ Finish
        \/ Export

Spec == Init /\ [][Next]_vars

\* ------------------------------------------------------------------------
\* Vocabulary of the properties
\* ------------------------------------------------------------------------
Values(f) == {f[k] : k \in DOMAIN f}

\* The signature of a text: the product of the primes of its letters
signature(word) == primes_product(primes(essential_chars(word)).value)

RECURSIVE product_of(_)
product_of(groups) ==
    IF groups = <<>> THEN 1
    ELSE signature(Head(groups)[1]) * product_of(Tail(groups))

\* The groups of a phrase that were taken from the lexicon: the phrase
\* without one occurrence of the must-include group
lexicon_groups(phrase) ==
    IF must_include = <<>> THEN phrase
    ELSE IF \E k \in 1..Len(phrase) : phrase[k] = must_include
    THEN remove_at(phrase, CHOOSE k \in 1..Len(phrase) : phrase[k] = must_include)
    ELSE phrase

\* Every phrase handed out so far: stored, returned or sent on the channel
Delivered ==
    Values(results) \cup Values(returned)
        \cup {channel[k].phrase : k \in {j \in 1..Len(channel) : channel[j].some}}

SoundPhrase(p) ==
    /\ must_include # <<>> => \E k \in 1..Len(p) : p[k] = must_include
    /\ \A k \in 1..Len(lexicon_groups(p)) : lexicon_groups(p)[k] \in Values(map)
    /\ product_of(lexicon_groups(p)) = search.primes_product

\* ------------------------------------------------------------------------
\* C2. Soundness at every stopping point: in every state of a run, hence
\* also when the queue was drained, the time budget stopped the run or a
\* send failed, every phrase that brute_force has stored, returned or sent on
\* the channel contains the must-include group (when there is one) and
\* otherwise word-groups of the lexicon whose signatures multiply to exactly
\* the target signature.
\* ------------------------------------------------------------------------
C2_Soundness == \A p \in Delivered : SoundPhrase(p)

\* A run was cut short, by the clock or by a failed send, after it had
\* found a phrase, and returned it while tasks were still queued
C2_Witness ==
    /\ pc = "done"
    /\ stopped \in {"time", "send failed"}
    /\ returned # <<>>
    /\ deque # <<>>

\* ------------------------------------------------------------------------
\* C4. Maximum word count: every phrase that brute_force stores, returns or
\* sends holds at most max_phrase_words word-groups taken from the lexicon;
\* the must-include group is not counted.
\* ------------------------------------------------------------------------
C4_MaxWords ==
    \A p \in Delivered : Len(lexicon_groups(p)) <= config.max_phrase_words

\* A returned phrase uses the whole budget and carries the must-include
\* group in addition
C4_Witness ==
    /\ pc = "done"
    /\ must_include # <<>>
    /\ \E k \in 1..Len(returned) :
          /\ Len(returned[k]) = config.max_phrase_words + 1
          /\ Len(lexicon_groups(returned[k])) = config.max_phrase_words

\* ------------------------------------------------------------------------
\* More vocabulary: compositions as multisets of signatures
\* ------------------------------------------------------------------------
\* The signatures of the lexicon groups of a phrase, as a bag
signature_bag(phrase) ==
    LET groups == lexicon_groups(phrase)
        sigs   == {signature(groups[k][1]) : k \in 1..Len(groups)}
    IN  [sg \in sigs |->
            Cardinality({k \in 1..Len(groups) : signature(groups[k][1]) = sg})]

\* Every bag of at most n keys, none above top, whose product is t
RECURSIVE factorizations(_, _, _, _)
factorizations(keys, t, top, n) ==
    IF n = 0 THEN {}
    ELSE UNION { (IF k = t THEN {(k :> 1)} ELSE {}) \cup
                 { IF k \in DOMAIN rest
                   THEN [rest EXCEPT ![k] = @ + 1]
                   ELSE (k :> 1) @@ rest :
                     rest \in factorizations(keys, t \div k, k, n - 1) } :
                 k \in {j \in keys : j <= top /\ t % j = 0} }

bag_size(bag) ==
    LET RECURSIVE total(_)
        total(ks) == IF ks = {} THEN 0
                     ELSE LET k == CHOOSE x \in ks : TRUE
                          IN  bag[k] + total(ks \ {k})
    IN  total(DOMAIN bag)

\* Two phrases made of the same groups, whatever their order
same_groups(p, q) ==
    /\ Len(p) = Len(q)
    /\ \A g \in Values(p) \cup Values(q) :
          Cardinality({k \in 1..Len(p) : p[k] = g})
              = Cardinality({k \in 1..Len(q) : q[k] = g})

\* ------------------------------------------------------------------------
\* C1. Completeness and exactness: when brute_force ran to the end of its
\* queue with no must-include words, no time budget and a budget of
\* M >= 2 words, the list it returns holds exactly one entry for every bag
\* of 2..M lexicon signatures whose product is the target, and nothing else.
\* ------------------------------------------------------------------------
C1_Complete ==
    (/\ pc = "done"
     /\ stopped = "drained"
     /\ must_include = <<>>
     /\ ~max_duration
     /\ config.max_phrase_words >= 2)
    => LET expected == { b \in factorizations(DOMAIN map, search.primes_product,
                                              search.primes_product,
                                              config.max_phrase_words) :
                           bag_size(b) >= 2 }
       IN  /\ {signature_bag(returned[k]) : k \in 1..Len(returned)} = expected
           /\ Len(returned) = Cardinality(expected)

\* ------------------------------------------------------------------------
\* C3. Deduplication is order-independent and never collapses different
\* compositions: whenever brute_force offers a completed phrase to
\* push_if_unique, the table stays as it is if it already holds a phrase
\* made of the same groups in some order, and otherwise gains an entry made
\* of the groups of the offered phrase; and the table never holds two
\* entries made of the same groups.
\* ------------------------------------------------------------------------
\* What factor_i answers in the step brute_force is about to take
Offered ==
    IF pc = "seed" /\ i < Len(descending_keys) THEN factor_i(Task_new, i)
    ELSE IF pc = "drain" /\ deque # <<>>
    THEN factor_i(Head(deque), Head(deque).index)
    ELSE Reject

C3_Dedup ==
    [][ /\ Offered.kind = "Complete" =>
             IF \E k \in DOMAIN results : same_groups(results[k], Offered.phrase)
             THEN results' = results
             ELSE \E k \in DOMAIN results' \ DOMAIN results :
                     same_groups(results'[k], Offered.phrase)
        /\ \A j, k \in DOMAIN results' :
             same_groups(results'[j], results'[k]) => j = k ]_vars

\* ------------------------------------------------------------------------
\* C5. Must-include prefix: when must_include is non-empty, every phrase
\* stored, returned or sent on the channel has the must-include group as
\* its first group.
\* ------------------------------------------------------------------------
C5_Prefix ==
    must_include # <<>> => \A p \in Delivered : p[1] = must_include

\* ------------------------------------------------------------------------
\* C6. Must-include is divided out exactly: whenever Search::query
\* returned Ok, the target it computed times the signature of the
\* must-include words is the signature of the input phrase.
\* ------------------------------------------------------------------------
C6_ExactDivision ==
    search.ok =>
        search.primes_product * signature(join(must_include, <<>>))
            = signature(join(input_phrase, <<>>))

\* ------------------------------------------------------------------------
\* C7. Exact-match extraction: a line that reaches filter_word, is accepted
\* by it and has the signature of the target is appended to the single-word
\* list and leaves the lexicon as it was; no key of the lexicon equals the
\* target, and every single-word match has the signature of the target.
\* ------------------------------------------------------------------------
\* load_and_select passes these to filter_word for every line
accepted(word) ==
    filter_word(word, search.pattern, str_len(search.essential),
                search.primes_product).ok

C7_ExactMatch ==
    [][ /\ (/\ pc = "read"
            /\ previous' # previous
            /\ accepted(previous')
            /\ signature(previous') = search.primes_product)
           => /\ single_word_list' = Append(single_word_list, previous')
              /\ map' = map
        /\ search.primes_product \notin DOMAIN map'
        /\ \A k \in 1..Len(single_word_list') :
              signature(single_word_list'[k]) = search.primes_product ]_vars

C7_Witness ==
    /\ pc = "loaded"
    /\ single_word_list # <<>>
    /\ map # <<>>

\* ------------------------------------------------------------------------
\* C8. Lexicon divisibility: every key of the lexicon divides the target
\* with remainder zero and is smaller than it, and every line that
\* filter_word rejects with WordProductNotFactor has a signature that does
\* not divide the target.
\* ------------------------------------------------------------------------
C8_Divisibility ==
    /\ \A k \in DOMAIN map :
          /\ search.primes_product % k = 0
          /\ k < search.primes_product
    /\ search.ok =>
          \A line \in Lines :
              filter_word(trim(line), search.pattern, str_len(search.essential),
                          search.primes_product).err = "WordProductNotFactor"
                  => search.primes_product % signature(trim(line)) # 0

C8_Witness ==
    /\ pc = "read"
    /\ map # <<>>
    /\ line_outcome(previous, <<>>) = "WordProductNotFactor"

\* ------------------------------------------------------------------------
\* C9. No repeated text in a word list: no word list of the lexicon and no
\* single-word match list holds the same word twice, whatever the order of
\* the lines and however they are spread over the files.
\* ------------------------------------------------------------------------
no_repeat(list) ==
    \A j, k \in 1..Len(list) : list[j] = list[k] => j = k

C9_NoRepeat ==
    /\ \A k \in DOMAIN map : no_repeat(map[k])
    /\ no_repeat(single_word_list)

\* ------------------------------------------------------------------------
\* C10. Query words are excluded: no word of the input phrase is in a word
\* list of the lexicon or in the single-word matches.
\* ------------------------------------------------------------------------
C10_QueryWordsExcluded ==
    \A w \in Values(input_phrase) :
        /\ \A k \in DOMAIN map : w \notin Values(map[k])
        /\ w \notin Values(single_word_list)

\* ------------------------------------------------------------------------
\* Library functions called on their own, with arguments from bounded sets
\* ------------------------------------------------------------------------
MaxLen == 3

\* 'a', 'b', 'A', U+00AA (feminine ordinal, a letter of two bytes), apostrophe
Alphabet == {97, 98, 65, 170, 39}

Strings == UNION { [1..n -> Alphabet] : n \in 0..MaxLen }

\* Every code point up to U+0101
Chars == 0..257

\* "a", "I", "n", "Rust", "ab", "", U+00E0, U+00C0
FilterWords ==
    { <<97>>, <<73>>, <<110>>, <<82, 117, 115, 116>>, <<97, 98>>, <<>>,
      <<224>>, <<192>> }

\* "ab ab", "ab", "a b c", "a  b", " ab "
InputStrings ==
    { <<97, 98, 32, 97, 98>>, <<97, 98>>, <<97, 32, 98, 32, 99>>,
      <<97, 32, 32, 98>>, <<32, 97, 98, 32>> }

\* "a", "bb", "ab", "abab", "ac", "ababc", "bbb", "aaa", "''", "Ab", "c",
\* "d", and U+0101, a letter without a prime
FilterWordWords ==
    { <<97>>, <<98, 98>>, <<97, 98>>, <<97, 98, 97, 98>>, <<97, 99>>,
      <<97, 98, 97, 98, 99>>, <<98, 98, 98>>, <<97, 97, 97>>, <<39, 39>>,
      <<65, 98>>, <<99>>, <<100>>, <<257>> }

\* (pattern, input_length, input_product) as load_and_select takes them from
\* a Search: "abab" (36), "aabb" net of "b" (12), "ab" (6), and "aabb" net
\* of "c" (36 / 5 = 7)
FilterWordQueries ==
    { [pattern |-> <<97, 98>>, input_length |-> 4, input_product |-> 36],
      [pattern |-> <<97, 98>>, input_length |-> 4, input_product |-> 12],
      [pattern |-> <<97, 98>>, input_length |-> 2, input_product |-> 6],
      [pattern |-> <<97, 98>>, input_length |-> 4, input_product |-> 7] }

Calls ==
    [fn : {"signature"}, a : Strings, b : Strings]
    \cup [fn : {"hash"}, ch : Chars]
    \cup [fn : {"filter"}, word : FilterWords, lang : {"EN", "ES", "Any"},
          skip_short : BOOLEAN, skip_upcase : BOOLEAN]
    \cup [fn : {"start"}, max_phrase_words : 0..MaxWords,
          input_string : InputStrings]
    \cup [fn : {"filter_word"}, word : FilterWordWords, query : FilterWordQueries]

InitCall ==
    /\ pc = "call"
    /\ call \in Calls
    /\ ret = NoRet
    /\ input_phrase = <<>>
    /\ must_include = <<>>
    /\ must_exclude = <<>>
    /\ config = [lang |-> "Any", include_short |-> FALSE,
                 include_upcase |-> FALSE, max_phrase_words |-> 1]
    /\ search = NoSearch
    /\ map = <<>>
    /\ single_word_list = <<>>
    /\ previous = <<>>
    /\ nfiles = 0
    /\ nlines = 0
    /\ load_result = ""
    /\ io = ""
    /\ descending_keys = <<>>
    /\ tx = FALSE
    /\ max_duration = FALSE
    /\ expired = FALSE
    /\ rx_alive = FALSE
    /\ channel = <<>>
    /\ i = 0
    /\ deque = <<>>
    /\ results = <<>>
    /\ stopped = ""
    /\ returned = <<>>

Returns(fn, value) ==
    /\ pc = "call"
    /\ call.fn = fn
    /\ ret' = value
    /\ pc' = "returned"
    /\ UNCHANGED <<call, queryVars, search, loadVars, searchVars>>

\* primes_product(&primes(&essential_chars(s))?)?, as Search::query does
signature_of(s) ==
    LET ps == primes(essential_chars(s))
    IN  IF ps.ok THEN [ok |-> TRUE, value |-> primes_product(ps.value)]
        ELSE [ok |-> FALSE, value |-> 0]

Call_signature ==
    Returns("signature", [a |-> signature_of(call.a), b |-> signature_of(call.b)])

Call_hash == Returns("hash", hash(call.ch))

Call_filter ==
    Returns("filter", filter(call.word, SHORT(call.lang), UPCASE(call.lang),
                             call.skip_short, call.skip_upcase))

\* session.rs: the word budget Session::start stores
RECURSIVE count_whitespace(_)
count_whitespace(s) ==
    IF s = <<>> THEN 0
    ELSE (IF is_whitespace(Head(s)) THEN 1 ELSE 0) + count_whitespace(Tail(s))

Session_start(max_phrase_words, input_string) ==
    LET n  == count_whitespace(trim(input_string))
        m  == IF max_phrase_words = 0 THEN n ELSE max_phrase_words
        ps == primes(essential_chars(input_string))
    IN  IF ~ps.ok THEN [ok |-> FALSE, max_phrase_words |-> 0]
        ELSE [ok |-> TRUE, max_phrase_words |-> IF m < 2 THEN 2 ELSE m]

Call_start ==
    Returns("start", Session_start(call.max_phrase_words, call.input_string))

Call_filter_word ==
    Returns("filter_word",
            filter_word(call.word, call.query.pattern, call.query.input_length,
                        call.query.input_product))

NextCall == \/ Call_signature
            \/ Call_hash
            \/ Call_filter
            \/ Call_start
            \/ Call_filter_word

SpecCall == InitCall /\ [][NextCall]_vars

\* ------------------------------------------------------------------------
\* C11. The signature is a faithful fingerprint of the multiset of letters:
\* two strings whose letters all have a prime get the same signature exactly
\* when their essential characters are the same letters with the same
\* multiplicities, and the signature is the product, over the letters, of
\* the letter's prime raised to the number of its occurrences.
\* ------------------------------------------------------------------------
letter_count(s, ch) ==
    Cardinality({k \in 1..Len(essential_chars(s)) : essential_chars(s)[k] = ch})

same_letters(a, b) ==
    \A ch \in Values(essential_chars(a)) \cup Values(essential_chars(b)) :
        letter_count(a, ch) = letter_count(b, ch)

RECURSIVE power(_, _)
power(p, n) == IF n = 0 THEN 1 ELSE p * power(p, n - 1)

RECURSIVE product_of_powers(_, _)
product_of_powers(s, letters) ==
    IF letters = {} THEN 1
    ELSE LET ch == CHOOSE x \in letters : TRUE
         IN  power(PRIMES[hash(ch) + 1], letter_count(s, ch))
                 * product_of_powers(s, letters \ {ch})

C11_Fingerprint ==
    (pc = "returned" /\ call.fn = "signature" /\ ret.a.ok /\ ret.b.ok)
    => /\ (ret.a.value = ret.b.value) <=> same_letters(call.a, call.b)
       /\ ret.a.value = product_of_powers(call.a, Values(essential_chars(call.a)))

\* "A'b" and "ba": another order, another case, a character that is no letter
C11_Witness ==
    /\ pc = "returned"
    /\ call.fn = "signature"
    /\ call.a = <<65, 39, 98>>
    /\ call.b = <<98, 97>>
    /\ ret.a.ok
    /\ ret.a.value = ret.b.value

\* ------------------------------------------------------------------------
\* C12. Letter-to-prime map: hash maps a..z to the indexes 0..25, maps the
\* letters of the Latin-1 supplement to indexes from 26 on, and answers None
\* for every other character; it is injective, every index is inside the
\* PRIMES table, and the table is strictly increasing with a prime at the
\* index returned.
\* ------------------------------------------------------------------------
is_prime(n) == n > 1 /\ \A d \in 2..(n - 1) : n % d # 0

latin1_letter(ch) == ch \in 128..255 /\ is_alphabetic(ch)

C12_LetterToPrime ==
    (pc = "returned" /\ call.fn = "hash")
    => /\ call.ch \in 97..122 => ret = call.ch - 97
       /\ latin1_letter(call.ch) => ret \in 26..(Len(PRIMES) - 1)
       /\ (call.ch \notin 97..122 /\ ~latin1_letter(call.ch)) => ret = -1
       /\ ret # -1 => /\ \A other \in Chars : hash(other) = ret => other = call.ch
                      /\ ret < Len(PRIMES)
                      /\ is_prime(PRIMES[ret + 1])
       /\ \A k \in 1..(Len(PRIMES) - 1) : PRIMES[k] < PRIMES[k + 1]

\* ------------------------------------------------------------------------
\* C13. Truncation is visible: what the caller holds after a run that the
\* time budget stopped with tasks still queued (the returned list, and on
\* the channel the same phrases followed by the marker) differs from what
\* it would hold had the same run gone on until the queue was empty.
\* ------------------------------------------------------------------------
\* The Candidate table whose phrases() is the given list
table_of(list) ==
    [key \in {phrase_key(list[k]) : k \in 1..Len(list)} |->
        list[CHOOSE k \in 1..Len(list) : phrase_key(list[k]) = key]]

\* The second loop of brute_force run to the end, without budget or channel
RECURSIVE drain(_, _)
drain(queue, table) ==
    IF queue = <<>> THEN table
    ELSE LET task  == Head(queue)
             rest  == Tail(queue)
             state == factor_i(task, task.index)
         IN  CASE state.kind = "Unchanged" -> drain(<<state.task>> \o rest, table)
               [] state.kind = "Reject" -> drain(rest, table)
               [] state.kind = "Complete" ->
                    drain(<<state.task>> \o rest,
                          push_if_unique(table,
                              CHOOSE sorted \in sort_unstable_by_first(state.phrase) :
                                  TRUE).table)
               [] state.kind = "Branch" ->
                    drain(<<state.branch, state.task>> \o rest, table)

C13_TruncationVisible ==
    (pc = "done" /\ stopped = "time" /\ deque # <<>>)
    => phrases(drain(deque, table_of(returned))) # returned

\* ------------------------------------------------------------------------
\* C14. Streaming delivers exactly the unique phrases: with a channel
\* attached and the receiver still connected, the Some messages on the
\* channel are exactly the phrases stored so far (at the end: the phrases
\* returned), each of them once; and a step that stores a phrase appends
\* that phrase to the channel in the same step.
\* ------------------------------------------------------------------------
some_messages == SelectSeq(channel, LAMBDA m : m.some)

C14_Streaming ==
    [][ (tx /\ rx_alive')
        => /\ LET sent == SelectSeq(channel', LAMBDA m : m.some)
              IN  /\ {sent[k].phrase : k \in 1..Len(sent)}
                        = Values(results') \cup Values(returned')
                  /\ Len(sent) = Cardinality(DOMAIN results') + Len(returned')
           /\ DOMAIN results' # DOMAIN results /\ results' # <<>>
                 => \E key \in DOMAIN results' \ DOMAIN results :
                        channel' = Append(channel, Some(results'[key])) ]_vars

C14_Witness ==
    /\ pc = "done"
    /\ tx
    /\ rx_alive
    /\ Len(returned) >= 2
    /\ Len(some_messages) = Len(returned)

\* ------------------------------------------------------------------------
\* C15. End-of-stream marker: with a channel attached, a None on the
\* channel is always its last message and is there only once brute_force has
\* returned; and whichever way the loops ended, the step in which
\* brute_force returns appends None to the channel when the receiver is
\* still connected.
\* ------------------------------------------------------------------------
C15_EndMarker ==
    [][ tx => /\ \A k \in 1..Len(channel') :
                    ~channel'[k].some => k = Len(channel') /\ pc' = "done"
              /\ (pc # "done" /\ pc' = "done" /\ rx_alive')
                    => channel' = Append(channel, None) ]_vars

C15_Witness ==
    /\ pc = "done"
    /\ tx
    /\ rx_alive
    /\ stopped = "time"
    /\ Len(channel) >= 2
    /\ channel[Len(channel)] = None

\* ------------------------------------------------------------------------
\* C16. The include flags relax the filters: a line that the language filter
\* of load_and_select lets through with include_short (include_upcase) false
\* is also let through with the flag true, the other settings being equal.
\* ------------------------------------------------------------------------
\* languages::filter as load_and_select calls it, for given flag values
language_filter(word, include_short, include_upcase) ==
    filter(word, SHORT(config.lang), UPCASE(config.lang),
           include_short, include_upcase)

C16_FlagsRelax ==
    pc = "read" =>
        \A line \in Lines :
            LET word == trim(line)
            IN  /\ (config.include_short
                      /\ ~language_filter(word, FALSE, config.include_upcase))
                   => line_outcome(word, <<>>) # "filtered"
                /\ (config.include_upcase
                      /\ ~language_filter(word, config.include_short, FALSE))
                   => line_outcome(word, <<>>) # "filtered"

\* ------------------------------------------------------------------------
\* C17. Language filter semantics: filter rejects a word of one character
\* when skip_short is set, and otherwise exactly when the short allowlist is
\* non-empty and lacks the word; it rejects a longer word that starts with
\* an upper-case character when skip_upcase is set, and otherwise exactly
\* when the upcase allowlist is non-empty and lacks the word; it accepts
\* every other word.
\* ------------------------------------------------------------------------
C17_FilterSemantics ==
    (pc = "returned" /\ call.fn = "filter")
    => LET word == call.word
           short_words == SHORT(call.lang)
           upcase_words == UPCASE(call.lang)
       IN  ret = IF Len(word) = 1
                 THEN \/ call.skip_short
                      \/ short_words # {} /\ word \notin short_words
                 ELSE IF Len(word) > 1 /\ is_uppercase(word[1])
                 THEN \/ call.skip_upcase
                      \/ upcase_words # {} /\ word \notin upcase_words
                 ELSE FALSE

\* ------------------------------------------------------------------------
\* C18. Automatic word budget: called with max_phrase_words = 0,
\* Session::start stores one more than the number of words of the input
\* phrase, and never less than 3.
\* ------------------------------------------------------------------------
\* input_string.split_whitespace().count()
word_count(s) ==
    Cardinality({k \in 1..Len(s) :
                    /\ ~is_whitespace(s[k])
                    /\ k = 1 \/ is_whitespace(s[k - 1])})

C18_AutoBudget ==
    (pc = "returned" /\ call.fn = "start" /\ call.max_phrase_words = 0 /\ ret.ok)
    => /\ ret.max_phrase_words >= 3
       /\ ret.max_phrase_words >= word_count(call.input_string) + 1
       /\ ret.max_phrase_words = 3
             \/ ret.max_phrase_words = word_count(call.input_string) + 1

\* ------------------------------------------------------------------------
\* search.rs with Config::max_phrase_words left at its default of 0
\* ------------------------------------------------------------------------
ZeroConfigs ==
    [lang : {"EN", "Any"}, include_short : {FALSE}, include_upcase : {FALSE},
     max_phrase_words : {0}]

InitZero == InitWith(ZeroConfigs, {<<>>})

\* The task brute_force hands to factor_i in its next step
current_task == IF pc = "seed" THEN Task_new ELSE Head(deque)

\* max_words: self.max_words - 1 with max_words = 0 in a build with overflow
\* checks: the thread panics
Underflow ==
    /\ \/ pc = "seed" /\ i < Len(descending_keys)
       \/ pc = "drain" /\ deque # <<>>
    /\ Offered.kind = "Branch"
    /\ current_task.max_words = 0
    /\ pc' = "panicked"
    /\ UNCHANGED <<callVars, queryVars, search, loadVars, searchVars>>

NextZero == Next \/ Underflow

SpecZero == InitZero /\ [][NextZero]_vars

\* ------------------------------------------------------------------------
\* C19. The engine always has a positive budget: once Search::query has
\* succeeded, the Task made by Task::new and every Task in the queue has
\* max_words >= 1, and the decrement in factor_i never underflows.
\* ------------------------------------------------------------------------
C19_PositiveBudget ==
    /\ pc \in {"seed", "drain", "finish", "done"}
          => /\ Task_new.max_words >= 1
             /\ \A k \in 1..Len(deque) : deque[k].max_words >= 1
    /\ pc # "panicked"

\* ------------------------------------------------------------------------
\* C20. Rejection tiers in a fixed order: filter_word answers WordTooLong
\* when the word has more letters than the input; else MismatchedChars when
\* it has a letter that is not in the pattern; else WordProductTooBig when
\* its signature is above the target; else WordProductNotFactor when its
\* signature does not divide the target; and Ok with the signature only when
\* none of the four tests fails.
\* ------------------------------------------------------------------------
too_long(word, query) ==
    str_len(essential_chars(word)) > query.input_length

mismatched(word, query) ==
    \E ch \in Values(essential_chars(word)) : ch \notin Values(query.pattern)

too_big(word, query) == signature(word) > query.input_product

not_factor(word, query) == query.input_product % signature(word) # 0

C20_TierOrder ==
    (pc = "returned" /\ call.fn = "filter_word"
        /\ primes(essential_chars(call.word)).ok)
    => LET w == call.word
           q == call.query
       IN  /\ ret.err = "WordTooLong" <=> too_long(w, q)
           /\ ret.err = "MismatchedChars" <=> ~too_long(w, q) /\ mismatched(w, q)
           /\ ret.err = "WordProductTooBig"
                 <=> ~too_long(w, q) /\ ~mismatched(w, q) /\ too_big(w, q)
           /\ ret.err = "WordProductNotFactor"
                 <=> /\ ~too_long(w, q) /\ ~mismatched(w, q)
                     /\ ~too_big(w, q) /\ not_factor(w, q)
           /\ ret.ok <=> /\ ~too_long(w, q) /\ ~mismatched(w, q)
                         /\ ~too_big(w, q) /\ ~not_factor(w, q)
           /\ ret.ok => ret.value = signature(w)

\* "ababc" against "abab": too long and with a letter outside the pattern
C20_Witness ==
    /\ pc = "returned"
    /\ call.fn = "filter_word"
    /\ too_long(call.word, call.query)
    /\ mismatched(call.word, call.query)
    /\ ret.err = "WordTooLong"

\* ------------------------------------------------------------------------
\* C22. Dictionary I/O failures propagate: whenever File::open or read_until
\* fails on a dictionary file, load_and_select ends with Err(NoFilePath) for
\* a missing file and with Err(UnknownIoError) for any other failure; it
\* does not go on to return Ok.
\* ------------------------------------------------------------------------
C22_IoErrorsPropagate ==
    [][ (pc \in {"load", "read"} /\ io' \in {"NotFound", "Other"})
        => /\ pc' = "failed"
           /\ load_result' = IF io' = "NotFound" THEN "NoFilePath"
                             ELSE "UnknownIoError" ]_vars

\* ------------------------------------------------------------------------
\* words.rs: preload, called on its own
\* ------------------------------------------------------------------------
\* Dictionary files as lists of decoded lines: empty; "ab"; "ab" then "ba";
\* a blank line then "ab"; U+0101 then "ab"; "ab" then U+0101; "a" then "bb"
PreloadFiles ==
    { <<>>,
      << <<97, 98, 10>> >>,
      << <<97, 98, 10>>, <<98, 97, 10>> >>,
      << <<10>>, <<97, 98, 10>> >>,
      << <<257, 10>>, <<97, 98, 10>> >>,
      << <<97, 98, 10>>, <<257, 10>> >>,
      << <<97, 10>>, <<98, 98, 10>> >> }

RECURSIVE lists_of(_, _)
lists_of(S, n) ==
    IF n = 0 THEN { <<>> }
    ELSE LET shorter == lists_of(S, n - 1)
         IN  shorter \cup { Append(l, x) : l \in {t \in shorter : Len(t) = n - 1},
                                           x \in S }

\* preload(file_paths, lang, encoding, short, upcase, verbose)
PreloadCalls ==
    [fn : {"preload"}, file_paths : lists_of(PreloadFiles, MaxFiles),
     lang : {"EN", "Any"}, short : BOOLEAN, upcase : BOOLEAN]

InitPreload ==
    /\ pc = "for"
    /\ call \in PreloadCalls
    /\ ret = NoRet
    /\ input_phrase = <<>>
    /\ must_include = <<>>
    /\ must_exclude = <<>>
    /\ config = [lang |-> "Any", include_short |-> FALSE,
                 include_upcase |-> FALSE, max_phrase_words |-> 1]
    /\ search = NoSearch
    /\ map = <<>>
    /\ single_word_list = <<>>
    /\ previous = <<>>
    /\ nfiles = 0
    /\ nlines = 0
    /\ load_result = ""
    /\ io = ""
    /\ descending_keys = <<>>
    /\ tx = FALSE
    /\ max_duration = FALSE
    /\ expired = FALSE
    /\ rx_alive = FALSE
    /\ channel = <<>>
    /\ i = 0
    /\ deque = <<>>
    /\ results = <<>>
    /\ stopped = ""
    /\ returned = <<>>

\* What preload leaves alone: everything but its locals and its result
preloadFrame ==
    <<call, ret, queryVars, search, single_word_list, searchVars>>

\* The line counter i of preload is an i32; the model keeps its two's
\* complement behaviour at a width of CounterBits
CounterBits == 3
i_MAX == 2 ^ (CounterBits - 1) - 1
i_MIN == 0 - 2 ^ (CounterBits - 1)

\* i += 1 in a build without overflow checks
wrapping_incr(n) == IF n = i_MAX THEN i_MIN ELSE n + 1

\* map.entry(product).or_insert_with(|| Vec::with_capacity(1)).push(word)
map_entry_push(m, product, word) ==
    IF product \in DOMAIN m
    THEN [m EXCEPT ![product] = Append(m[product], word)]
    ELSE (product :> <<word>>) @@ m

\* for filepath in file_paths: the next path; word and previous are new
Preload_for ==
    /\ pc = "for"
    /\ nfiles < Len(call.file_paths)
    /\ nfiles' = nfiles + 1
    /\ previous' = <<>>
    /\ nlines' = 0
    /\ pc' = "loop"
    /\ UNCHANGED <<map, load_result, io, preloadFrame>>

\* The paths are exhausted: Ok(map)
Preload_return ==
    /\ pc = "for"
    /\ nfiles = Len(call.file_paths)
    /\ load_result' = "Ok"
    /\ pc' = "loaded"
    /\ UNCHANGED <<map, previous, nfiles, nlines, io, preloadFrame>>

\* File::open(filepath)? inside the loop failed: the error is returned
Preload_open_fail ==
    /\ pc = "loop"
    /\ nlines' = wrapping_incr(nlines)
    /\ \E kind \in {"NotFound", "Other"} :
          /\ io' = kind
          /\ load_result' = From_io_Error(kind)
    /\ pc' = "failed"
    /\ UNCHANGED <<map, previous, nfiles, preloadFrame>>

\* The line that f.read_until delivers. f is the BufReader made in this
\* iteration from a File opened in this iteration, so it stands at the
\* start of the file
first_read(file) == IF file = <<>> THEN <<>> ELSE file[1]

\* Ok(0) => break
Preload_eof ==
    /\ pc = "loop"
    /\ first_read(call.file_paths[nfiles]) = <<>>
    /\ nlines' = wrapping_incr(nlines)
    /\ io' = "Eof"
    /\ pc' = "for"
    /\ UNCHANGED <<map, previous, nfiles, load_result, preloadFrame>>

\* Err(e) => println, break
Preload_read_fail ==
    /\ pc = "loop"
    /\ nlines' = wrapping_incr(nlines)
    /\ io' = "Other"
    /\ pc' = "for"
    /\ UNCHANGED <<map, previous, nfiles, load_result, preloadFrame>>

\* Ok(_n): one iteration of the loop on the line read
Preload_line ==
    /\ pc = "loop"
    /\ first_read(call.file_paths[nfiles]) # <<>>
    /\ nlines' = wrapping_incr(nlines)
    /\ io' = "Ok"
    /\ LET word == trim(first_read(call.file_paths[nfiles]))
           ps   == primes(essential_chars(word))
       IN  IF \/ word = <<>>
              \/ word = previous
              \/ filter(word, SHORT(call.lang), UPCASE(call.lang),
                        call.short, call.upcase)
           THEN UNCHANGED <<pc, map, previous, load_result>>
           ELSE IF ~ps.ok
           THEN /\ load_result' = ps.err
                /\ pc' = "failed"
                /\ UNCHANGED <<map, previous>>
           ELSE /\ map' = map_entry_push(map, primes_product(ps.value), word)
                /\ previous' = word
                /\ UNCHANGED <<pc, load_result>>
    /\ UNCHANGED <<nfiles, preloadFrame>>

\* i += 1 with the counter at its largest value: a build with overflow
\* checks panics here; one without them wraps (wrapping_incr above)
Preload_overflow ==
    /\ pc = "loop"
    /\ nlines = i_MAX
    /\ pc' = "panicked"
    /\ UNCHANGED <<map, previous, nfiles, nlines, load_result, io, preloadFrame>>

NextPreload ==
    \/ Preload_for
    \/ Preload_return
    \/ Preload_open_fail
    \/ Preload_eof
    \/ Preload_read_fail
    \/ Preload_line
    \/ Preload_overflow

SpecPreload == InitPreload /\ [][NextPreload]_vars

\* preload runs on one thread and nothing blocks it: it keeps taking steps
\* for as long as one is possible
SpecPreloadFair == SpecPreload /\ WF_vars(NextPreload)

\* ------------------------------------------------------------------------
\* C21. A bad dictionary line never aborts a load: a line with a letter that
\* has no prime is skipped, so a loader never returns CharOutOfBounds
\* because of a dictionary line. Stated for preload.
\* ------------------------------------------------------------------------
C21_BadLineSkipped == load_result # "CharOutOfBounds"

\* ------------------------------------------------------------------------
\* C25. preload loads the entire word list: unless an I/O failure occurs,
\* preload eventually comes to an end, and the map it returns holds every
\* word of every file that passes the language filter, under its signature.
\* An end by an error return or by a panic counts as an end here.
\* ------------------------------------------------------------------------
holds_every_word ==
    \A f \in 1..Len(call.file_paths) :
       \A l \in 1..Len(call.file_paths[f]) :
          LET word == trim(call.file_paths[f][l])
              ps   == primes(essential_chars(word))
          IN  (/\ word # <<>>
               /\ ~filter(word, SHORT(call.lang), UPCASE(call.lang),
                          call.short, call.upcase)
               /\ ps.ok)
              => /\ primes_product(ps.value) \in DOMAIN map
                 /\ \E k \in DOMAIN map[primes_product(ps.value)] :
                       map[primes_product(ps.value)][k] = word

C25_PreloadLoadsAll ==
    <>( \/ pc = "loaded" /\ holds_every_word
        \/ load_result \notin {"", "Ok"}
        \/ io \in {"NotFound", "Other"}
        \/ pc = "panicked" )

\* ------------------------------------------------------------------------
\* C23. Export is lossless and grouped by length: what json::write and
\* csv::write put out for the list that brute_force returned holds every
\* phrase of the list exactly once with all member words of every group,
\* by ascending number of groups and in list order within one length.
\* ------------------------------------------------------------------------
\* The phrases of list with n groups or more, by ascending number of groups
\* and in list order within one length
RECURSIVE by_length(_, _)
by_length(list, n) ==
    IF \A k \in DOMAIN list : Len(list[k]) < n THEN <<>>
    ELSE with_len(list, n) \o by_length(list, n + 1)

\* The rows of fields after the "Anagrams" title
csv_records(rows) ==
    LET at == CHOOSE k \in DOMAIN rows : rows[k].title = "Anagrams"
    IN  SelectSeq(SubSeq(rows, at + 1, Len(rows)),
                  LAMBDA row : row.fields # <<>>)

C23_ExportLossless ==
    ret.ok =>
        LET expected == by_length(returned, 0)
        IN  /\ ret.json.anagrams = expected
            /\ csv_records(ret.csv)
                  = [k \in DOMAIN expected |-> csv_record(expected[k])]

\* ------------------------------------------------------------------------
\* C24. Budget of one word: with max_phrase_words = 1, brute_force over a
\* lexicon built by load_and_select never gets a Branch from factor_i,
\* has an empty queue once seeding is over, stores and sends no phrase and
\* returns an empty list.
\* ------------------------------------------------------------------------
C24_BudgetOne ==
    (config.max_phrase_words = 1 /\ pc \in {"seed", "drain", "finish", "done"})
        => /\ Offered.kind # "Branch"
           /\ pc # "seed" => deque = <<>>
           /\ results = <<>>
           /\ \A k \in DOMAIN channel : ~channel[k].some
           /\ returned = <<>>

\* brute_force has returned after seeding from a lexicon of two keys or more
C24_Witness ==
    /\ config.max_phrase_words = 1
    /\ pc = "done"
    /\ Len(descending_keys) >= 2
    /\ i = Len(descending_keys)

\* ------------------------------------------------------------------------
\* C26. Canonical group order: in every phrase that brute_force stores,
\* sends on the channel or returns, the word-groups stand in ascending
\* order of the text of their first member.
\* ------------------------------------------------------------------------
C26_CanonicalOrder ==
    \A p \in Delivered :
       \A k \in 1..(Len(p) - 1) : str_le(p[k][1], p[k + 1][1])

\* A returned phrase of three groups whose must-include group, pushed
\* first, is not the first group
C26_Witness ==
    /\ pc = "done"
    /\ must_include # <<>>
    /\ \E k \in DOMAIN returned :
          /\ Len(returned[k]) >= 3
          /\ returned[k][1] # must_include

\* ------------------------------------------------------------------------
\* C27. Branch cursor: a task created by a Branch on the lexicon entry at
\* index i has cursor index i, in the seeding loop as well as in the drain
\* loop, so that it never looks at an entry below i.
\* ------------------------------------------------------------------------
\* The index that the step brute_force is about to take hands to factor_i
examined_index ==
    IF pc = "seed" THEN i
    ELSE IF pc = "drain" /\ deque # <<>> THEN Head(deque).index
    ELSE 0

C27_BranchCursor ==
    Offered.kind = "Branch" => Offered.branch.index = examined_index

\* ------------------------------------------------------------------------
\* C28. No permutation duplicates are generated: no composition reaches
\* Complete twice in one run, that is, push_if_unique is never called with
\* groups that the table already holds in some order.
\* ------------------------------------------------------------------------
C28_NoPermutationDuplicates ==
    Offered.kind = "Complete"
        => ~\E k \in DOMAIN results : same_groups(results[k], Offered.phrase)

\* ------------------------------------------------------------------------
\* C29. Task product invariant: for every task of brute_force, remaining
\* target x accumulated product = the target signature of the query. Hence
\* for the entry a task examines: entry x accumulated product = query
\* signature only if the entry equals the remaining target, and an entry
\* that does not exceed the remaining target never makes the accumulated
\* product exceed the query signature.
\* ------------------------------------------------------------------------
\* Every task that exists: the first task and the tasks in the queue
tasks ==
    IF pc \in {"seed", "drain", "finish"}
    THEN {Task_new} \cup {deque[k] : k \in DOMAIN deque}
    ELSE {}

\* The task whose step is about to be taken, and the entry it examines
examined_task == IF pc = "seed" THEN Task_new ELSE Head(deque)

examines ==
    \/ pc = "seed" /\ i < Len(descending_keys)
    \/ pc = "drain" /\ deque # <<>> /\ Head(deque).index < Len(descending_keys)

C29_TaskProduct ==
    /\ \A t \in tasks : t.target * t.acc_product = search.primes_product
    /\ examines =>
          LET entry == descending_keys[examined_index + 1]
              t     == examined_task
          IN  /\ entry * t.acc_product = search.primes_product
                    => entry = t.target
              /\ entry <= t.target
                    => entry * t.acc_product <= search.primes_product

\* A branch two words deep waits in the queue
C29_Witness ==
    /\ pc = "drain"
    /\ \E k \in DOMAIN deque :
          /\ deque[k].acc_product > 1
          /\ deque[k].target > 1
          /\ Len(deque[k].accumulator) >= 2

\* ------------------------------------------------------------------------
\* C30. Budget accounting: for every task, max_words plus the number of
\* lexicon groups in its accumulator equals max_phrase_words, and a step
\* lowers the budget only in a Branch, by one, for the one group it adds.
\* ------------------------------------------------------------------------
\* The groups of an accumulator that came from the lexicon
lexicon_count(t) ==
    Len(t.accumulator) - (IF must_include = <<>> THEN 0 ELSE 1)

C30_BudgetAccounting ==
    /\ \A t \in tasks : t.max_words + lexicon_count(t) = config.max_phrase_words
    /\ Offered.kind = "Branch" =>
          /\ Offered.branch.max_words = examined_task.max_words - 1
          /\ Len(Offered.branch.accumulator) = Len(examined_task.accumulator) + 1
    /\ Offered.kind \in {"Unchanged", "Complete", "Branch"} =>
          /\ Offered.task.max_words = examined_task.max_words
          /\ Offered.task.accumulator = examined_task.accumulator

\* A task that has spent a part of its budget waits in the queue
C30_Witness ==
    /\ pc = "drain"
    /\ \E k \in DOMAIN deque :
          /\ deque[k].max_words < config.max_phrase_words
          /\ deque[k].max_words >= 1
          /\ lexicon_count(deque[k]) >= 1

\* ------------------------------------------------------------------------
\* C31. Frame of the continuing task: in every Unchanged, Complete and
\* Branch answer of factor_i(i) the continuing task is the input task with
\* cursor i + 1 and nothing else changed; and no step of the search changes
\* the lexicon, the key index or the query.
\* ------------------------------------------------------------------------
C31_Frame ==
    [][ (pc \in {"seed", "drain", "finish"})
        => /\ Offered.kind \in {"Unchanged", "Complete", "Branch"}
                => Offered.task =
                      [examined_task EXCEPT !.index = examined_index + 1]
           /\ map' = map
           /\ descending_keys' = descending_keys
           /\ search' = search
           /\ input_phrase' = input_phrase
           /\ must_include' = must_include ]_vars

\* factor_i is about to complete a phrase for a task that holds a word
C31_Witness ==
    /\ pc = "drain"
    /\ Offered.kind = "Complete"
    /\ Head(deque).acc_product > 1

\* ------------------------------------------------------------------------
\* C32. Pruning at budget 1 loses nothing: when factor_i rejects a task
\* whose budget is 1 at an entry below the remaining target, no entry from
\* that index on equals the remaining target or completes the query
\* signature; and a cursor never passes the length of the key index without
\* stopping there, every task being examined at its cursor and continued at
\* the cursor plus one.
\* ------------------------------------------------------------------------
C32_PruningSafe ==
    [][ (\/ pc = "seed" /\ i < Len(descending_keys)
         \/ pc = "drain" /\ deque # <<>>)
        => LET t == examined_task
               n == examined_index
           IN  /\ n <= Len(descending_keys)
               /\ (/\ Offered.kind = "Reject"
                   /\ n < Len(descending_keys)
                   /\ t.max_words = 1)
                     => \A k \in (n + 1)..Len(descending_keys) :
                           /\ descending_keys[k] # t.target
                           /\ descending_keys[k] * t.acc_product
                                 # search.primes_product
               /\ Offered.kind \in {"Unchanged", "Complete", "Branch"}
                     => \E k \in DOMAIN deque' :
                           deque'[k] = [t EXCEPT !.index = n + 1] ]_vars

\* A branch with budget 1 is rejected before the end of the key index
C32_Witness ==
    /\ pc = "drain"
    /\ deque # <<>>
    /\ Head(deque).max_words = 1
    /\ Head(deque).acc_product > 1
    /\ Head(deque).index + 1 < Len(descending_keys)
    /\ Offered.kind = "Reject"

\* ------------------------------------------------------------------------
\* C33. Depth-first drain order: in the drain loop a Branch puts the new
\* branch task first and its sibling second, an Unchanged or a Complete
\* puts the same task with its cursor advanced first, a Reject puts nothing,
\* and in each case the tasks that waited behind follow untouched; the
\* seeding loop adds tasks at the back only, so they are taken in the order
\* in which they were seeded.
\* ------------------------------------------------------------------------
C33_DepthFirst ==
    [][ /\ (pc = "drain" /\ deque # <<>>)
           => deque' =
                 (CASE Offered.kind = "Branch" -> <<Offered.branch, Offered.task>>
                    [] Offered.kind \in {"Unchanged", "Complete"} -> <<Offered.task>>
                    [] Offered.kind = "Reject" -> <<>>)
                 \o Tail(deque)
        /\ pc = "seed"
           => /\ Len(deque') >= Len(deque)
              /\ SubSeq(deque', 1, Len(deque)) = deque ]_vars

\* A Branch in the drain loop while other tasks wait behind
C33_Witness ==
    /\ pc = "drain"
    /\ Len(deque) >= 2
    /\ Offered.kind = "Branch"

\* ------------------------------------------------------------------------
\* C34. Bounded queue: at every point of brute_force the deque holds at
\* most 2 x (number of lexicon keys) + max_phrase_words tasks.
\* ------------------------------------------------------------------------
C34_BoundedQueue ==
    pc \in {"seed", "drain", "finish", "done"}
        => Len(deque) <= 2 * Len(descending_keys) + config.max_phrase_words

\* The queue is longer than the seeding loop can make it
C34_Witness ==
    /\ pc = "drain"
    /\ Len(deque) > 2 * Len(descending_keys)

\* ------------------------------------------------------------------------
\* brute_force runs on the caller's thread and nothing blocks it: once it
\* was called, its loops keep taking steps until it returns
\* ------------------------------------------------------------------------
\* The searches are those of Spec without a language allowlist: with the
\* flags off an allowlist only removes one-letter lines from the lexicon
FairConfigs == {c \in SearchConfigs : c.lang = "Any"}

\* Word budgets up to three: a phrase, a branch, and a branch of a branch
InitFair == InitWith({c \in FairConfigs : c.max_phrase_words <= 3}, {<<>>})

SpecFair ==
    InitFair /\ [][Next]_vars /\ WF_vars(SeedStep \/ DrainStep \/ Finish)

C36_TimeBudget ==
    [][ (expired /\ pc \in {"seed", "drain", "finish"})
        => /\ i' = i
           /\ deque' = deque ]_vars

\* ------------------------------------------------------------------------
\* C37. Stop on a dead receiver: once a send of a phrase has failed,
\* brute_force calls factor_i on no further task, in either loop: the
\* cursor of the seeding loop and the deque stay as they are until the end
\* marker is attempted and the list returned.
\* ------------------------------------------------------------------------
\* A send has failed: there is a sender and the receiver was found gone
send_failed == tx /\ ~rx_alive

C37_DeadReceiver ==
    [][ (send_failed /\ pc \in {"seed", "drain", "finish"})
        => /\ i' = i
           /\ deque' = deque ]_vars

\* ------------------------------------------------------------------------
\* brute_force over a lexicon that the caller supplies: Cache::init takes
\* any PMap, for instance one that holds every word of a word list as
\* preload builds it, without the selection of load_and_select. Such a
\* lexicon can hold a key that equals the target and keys that are no
\* factors of it.
\* ------------------------------------------------------------------------
WordList == {trim(line) : line \in Lines} \ {<<>>}

RECURSIVE lexicon_of(_)
lexicon_of(words) ==
    IF words = {} THEN <<>>
    ELSE LET word == CHOOSE w \in words : \A v \in words : str_le(v, w)
         IN  map_entry_push(lexicon_of(words \ {word}), signature(word), word)

InitSearch ==
    /\ pc = "loaded"
    /\ \E q \in {r \in Queries : Search_query(r.input_phrase, r.must_include).ok} :
          /\ input_phrase = q.input_phrase
          /\ must_include = q.must_include
          /\ search = Search_query(q.input_phrase, q.must_include)
    /\ must_exclude = <<>>
    /\ config \in FairConfigs
    /\ \E words \in {S \in SUBSET WordList : Cardinality(S) <= MaxLines} :
          map = lexicon_of(words)
    /\ single_word_list = <<>>
    /\ previous = <<>>
    /\ nfiles = 0
    /\ nlines = 0
    /\ load_result = "Ok"
    /\ io = ""
    /\ descending_keys = <<>>
    /\ tx = FALSE
    /\ max_duration = FALSE
    /\ expired = FALSE
    /\ rx_alive = FALSE
    /\ channel = <<>>
    /\ i = 0
    /\ deque = <<>>
    /\ results = <<>>
    /\ stopped = ""
    /\ returned = <<>>
    /\ call = NoCall
    /\ ret = NoRet

NextSearch ==
    \/ CacheInit
    \/ Enrich
    \/ BruteForce
    \/ SeedStep
    \/ DrainStep
    \/ Finish
    \/ Export

SpecSearch == InitSearch /\ [][NextSearch]_vars

\* ------------------------------------------------------------------------
\* C38. Key index: the descending_keys of Cache::init holds every key of
\* the lexicon exactly once, in strictly descending order, so that the
\* lookup of descending_keys[i] in the lexicon succeeds for every index
\* below the length.
\* ------------------------------------------------------------------------
C38_KeyIndex ==
    pc \in {"cached", "enriched", "seed", "drain", "finish", "done"}
        => /\ {descending_keys[k] : k \in DOMAIN descending_keys} = DOMAIN map
           /\ Len(descending_keys) = Cardinality(DOMAIN map)
           /\ \A k \in 1..(Len(descending_keys) - 1) :
                 descending_keys[k] > descending_keys[k + 1]
           /\ \A k \in DOMAIN descending_keys : descending_keys[k] \in DOMAIN map

\* The search runs over an index of three keys
C38_Witness ==
    /\ pc = "seed"
    /\ Len(descending_keys) >= 3

\* ------------------------------------------------------------------------
\* C39. The cheap prefilters are sound: for a pattern, an essential length
\* and a target taken from one successful query, filter_word(word) returns
\* Ok(signature(word)) exactly when the signature of the word divides the
\* target; WordTooLong and MismatchedChars never reject a word whose
\* signature divides the target, and CharOutOfBounds is never returned.
\* ------------------------------------------------------------------------
\* The queries the filter_word calls are taken from: "ab ab", "ab",
\* "aabb" with must-include "b", and "aabb" with must-include "c"
SoundQueries ==
    { [input_phrase |-> << <<97, 98>>, <<97, 98>> >>, must_include |-> <<>>],
      [input_phrase |-> << <<97, 98>> >>, must_include |-> <<>>],
      [input_phrase |-> << <<97, 97, 98, 98>> >>, must_include |-> << <<98>> >>],
      [input_phrase |-> << <<97, 97, 98, 98>> >>, must_include |-> << <<99>> >>] }

\* What load_and_select is given from a Search, and hands to filter_word
load_args(s) ==
    [pattern |-> s.pattern, input_length |-> str_len(s.essential),
     input_product |-> s.primes_product]

from_query(query) ==
    \E q \in SoundQueries :
        LET s == Search_query(q.input_phrase, q.must_include)
        IN  s.ok /\ load_args(s) = query

divides_target(word, query) ==
    /\ primes(essential_chars(word)).ok
    /\ query.input_product % signature(word) = 0

C39_PrefiltersSound ==
    (pc = "returned" /\ call.fn = "filter_word" /\ from_query(call.query))
    => LET w == call.word
           q == call.query
       IN  /\ ret.ok <=> divides_target(w, q)
           /\ ret.ok => ret.value = signature(w)
           /\ divides_target(w, q)
                 => ret.err \notin {"WordTooLong", "MismatchedChars"}
           /\ ret.err # "CharOutOfBounds"

\* ------------------------------------------------------------------------
\* C40. Every lexicon entry carries letters: every key of the lexicon
\* returned by load_and_select is greater than 1; a dictionary line without
\* any alphabetic character (signature 1) is never inserted.
\* ------------------------------------------------------------------------
C40_KeysCarryLetters ==
    (pc \in {"loaded", "cached"} /\ load_result = "Ok")
    => \A key \in DOMAIN map : key > 1

====
